---- MODULE Spec2Model ----
(***************************************************************************)
(* Model of crswitch: the point sampler (generate_points), the affine      *)
(* fitter (approximate_transform), the polygon interpolation               *)
(* (interpolate_polygon) and the Projector: its constructors, the          *)
(* project_point property and the methods that project points, lines,      *)
(* GeoJSON objects and affine transforms.                                  *)
(*                                                                         *)
(* Every function of the library is pure, so each specification draws a    *)
(* pending call (operation and arguments) in Init and one action per       *)
(* function applies it, recording the locals and the returned value.       *)
(***************************************************************************)
EXTENDS Integers, Sequences, FiniteSets

VARIABLES
    op,             \* the function being called
    done,           \* FALSE while the call is pending, TRUE once it returned
    x_range,        \* generate_points / *_grid argument
    y_range,        \* generate_points / *_grid argument
    b,              \* generate_points / *_grid argument (block size)
    x_s,            \* generate_points local: the x samples
    y_s,            \* generate_points local: the y samples
    transform,      \* affine coefficients <<a, b, c, d, e, f>>
    _project_point, \* Projector._project_point (name of the point mapping)
    points_from,    \* approximate_transform argument (as received)
    points_to,      \* approximate_transform argument (as received)
    ret,            \* the returned value (or the raised error)
    geojson_object, \* project_geojson_object argument (the caller's object)
    line,           \* project_line argument
    interpolation,  \* interpolation argument (0 stands for None)
    optimize,       \* the interpreter runs with -O (assert statements dropped)
    new_project_point, \* the value last assigned to projector.project_point
    assigned        \* outcome of that assignment: "none", "ok" or the error

\* the variables of the Projector calls that take a geometry, and of the
\* project_point setter
pvars == <<geojson_object, line, interpolation, optimize, new_project_point,
           assigned>>

vars == <<op, done, x_range, y_range, b, x_s, y_s, transform, _project_point,
          points_from, points_to, ret, pvars>>

-----------------------------------------------------------------------------
(* Bounds *)

MaxRange == 10
MaxBlock == 4
MaxPts == 4
MaxGrid == 3
MaxInterp == 2
MaxVertices == 3
MaxDepth == 2

-----------------------------------------------------------------------------
(* Generic helpers *)

\* no geometry argument, no assignment to project_point
NoProjectorCall ==
    /\ geojson_object = <<>>
    /\ line = <<>>
    /\ interpolation = 0
    /\ optimize = FALSE
    /\ new_project_point = "none"
    /\ assigned = "none"

Max(m, n) == IF m >= n THEN m ELSE n

\* ceil(m / n) for m >= 0, n > 0
CeilDiv(m, n) == (m + n - 1) \div n

\* the values of a sequence
Elems(s) == {s[i] : i \in 1..Len(s)}

\* a returned value / a raised exception
NoRet == [kind |-> "pending", points |-> <<>>, num |-> <<>>, den |-> 0]
RetPoints(pts) == [kind |-> "points", points |-> pts, num |-> <<>>, den |-> 0]

-----------------------------------------------------------------------------
(* util/helpers.py: generate_points *)

\* mutants of x_s: the trailing block is never sampled / is always sampled /
\* is sampled at its far end (the halving is lost)
XSamplesNoTrailing(xr, bs) ==
    [i \in 1..(xr \div bs) |-> bs * (i - 1) + ((bs - 1) \div 2)]

XSamplesAlwaysTrailing(xr, bs) ==
    Append([i \in 1..(xr \div bs) |-> bs * (i - 1) + ((bs - 1) \div 2)],
           bs * (xr \div bs) + (Max(bs - 1, (xr - 1) % bs) \div 2))

XSamplesNoHalving(xr, bs) ==
    LET full == [i \in 1..(xr \div bs) |-> bs * (i - 1) + ((bs - 1) \div 2)]
    IN  IF xr % bs # 0
        THEN Append(full, bs * (xr \div bs) + Max(bs - 1, (xr - 1) % bs))
        ELSE full

\* helpers.py:54-56  x_s, with the trailing-block sample appended
XSamples(xr, bs) ==
    LET full == [i \in 1..(xr \div bs) |-> bs * (i - 1) + ((bs - 1) \div 2)]
    IN  IF xr % bs # 0
        THEN Append(full, bs * (xr \div bs) + (Max(bs - 1, (xr - 1) % bs) \div 2))
        ELSE full

\* mutant of y_s: the trailing sample of the earlier sampler
\* (crs_projector.py:80-81), whose value depends on x_range
YSamplesOfXRange(xr, yr, bs) ==
    LET full == [i \in 1..(yr \div bs) |-> bs * (i - 1) + ((bs - 1) \div 2)]
    IN  IF yr % bs # 0
        THEN Append(full, bs * (yr \div bs) + Max((bs - 1) \div 2, (xr - 1) % bs))
        ELSE full

\* helpers.py:57-59  y_s; the trailing sample reads x_range, as the code does
YSamples(xr, yr, bs) ==
    LET full == [i \in 1..(yr \div bs) |-> bs * (i - 1) + ((bs - 1) \div 2)]
    IN  IF yr % bs # 0
        THEN Append(full, bs * (yr \div bs) + (Max(bs - 1, (xr - 1) % bs) \div 2))
        ELSE full

\* mutant of the cross product: the loops are swapped (outer y, inner x)
CrossProductYOuter(xs, ys) ==
    [k \in 1..(Len(xs) * Len(ys)) |->
        <<xs[((k - 1) % Len(xs)) + 1], ys[((k - 1) \div Len(xs)) + 1]>>]

\* helpers.py:60  [(x, y) for x in x_s for y in y_s]
CrossProduct(xs, ys) ==
    [k \in 1..(Len(xs) * Len(ys)) |->
        <<xs[((k - 1) \div Len(ys)) + 1], ys[((k - 1) % Len(ys)) + 1]>>]

generate_points(xr, yr, bs) == CrossProduct(XSamples(xr, bs), YSamples(xr, yr, bs))

-----------------------------------------------------------------------------
(* util/helpers.py: approximate_transform                                  *)
(*                                                                         *)
(* Coordinates are integers and the solution of the least-squares problem  *)
(* is kept as exact rationals: a matrix of numerators over one common      *)
(* denominator.                                                            *)

\* rasterio's Affine(a, b, c, d, e, f) * (x, y), and the same expression
\* written out in project_tuple_transform (projector.py:220)
AffineApply(t, p) ==
    <<t[1] * p[1] + t[2] * p[2] + t[3], t[4] * p[1] + t[5] * p[2] + t[6]>>

\* helpers.py:44  A = np.array([[x, y, 1] for x, y in points_from])
MatA(pf) == [i \in 1..Len(pf) |-> <<pf[i][1], pf[i][2], 1>>]

\* helpers.py:45  b = np.array([[x, y] for x, y in points_to])
MatB(pt) == [i \in 1..Len(pt) |-> <<pt[i][1], pt[i][2]>>]

\* sum of f[1..n]
RECURSIVE SumTo(_, _)
SumTo(f, n) == IF n = 0 THEN 0 ELSE SumTo(f, n - 1) + f[n]

\* P^T . Q for two matrices with the same number of rows
TransposeMul(P, Q, cols) ==
    [r \in 1..3 |-> [c \in 1..cols |->
        SumTo([i \in 1..Len(P) |-> P[i][r] * Q[i][c]], Len(P))]]

\* P . Q for a 3 x 3 matrix P and a 3 x cols matrix Q
Mul3(P, Q, cols) ==
    [r \in 1..3 |-> [c \in 1..cols |->
        P[r][1] * Q[1][c] + P[r][2] * Q[2][c] + P[r][3] * Q[3][c]]]

Det3(M) ==
      M[1][1] * (M[2][2] * M[3][3] - M[2][3] * M[3][2])
    - M[1][2] * (M[2][1] * M[3][3] - M[2][3] * M[3][1])
    + M[1][3] * (M[2][1] * M[3][2] - M[2][2] * M[3][1])

\* the adjugate: M . Adj3(M) = Det3(M) . I
Adj3(M) ==
    << << M[2][2] * M[3][3] - M[2][3] * M[3][2],
          M[1][3] * M[3][2] - M[1][2] * M[3][3],
          M[1][2] * M[2][3] - M[1][3] * M[2][2] >>,
       << M[2][3] * M[3][1] - M[2][1] * M[3][3],
          M[1][1] * M[3][3] - M[1][3] * M[3][1],
          M[1][3] * M[2][1] - M[1][1] * M[2][3] >>,
       << M[2][1] * M[3][2] - M[2][2] * M[3][1],
          M[1][2] * M[3][1] - M[1][1] * M[3][2],
          M[1][1] * M[2][2] - M[1][2] * M[2][1] >> >>

Trace3(M) == M[1][1] + M[2][2] + M[3][3]

\* the sum of the principal 2 x 2 minors
Minors3(M) ==
      (M[1][1] * M[2][2] - M[1][2] * M[2][1])
    + (M[1][1] * M[3][3] - M[1][3] * M[3][1])
    + (M[2][2] * M[3][3] - M[2][3] * M[3][2])

\* e . I - M
ShiftNeg3(M, e) ==
    [r \in 1..3 |-> [c \in 1..3 |-> (IF r = c THEN e ELSE 0) - M[r][c]]]

LinAlgError == [kind |-> "LinAlgError", points |-> <<>>, num |-> <<>>, den |-> 0]

\* helpers.py:46  np.linalg.lstsq(A, b, rcond = None)[0]: numpy rejects an A
\* that is not two-dimensional (np.array([]) of an empty list) and row counts
\* that differ ("Incompatible dimensions"); otherwise it returns the
\* minimum-norm least-squares solution X = pinv(A) . b, here with
\* M = A^T A and pinv(A) = pinv(M) . A^T:
\*   rank 3: pinv(M) = adj(M) / det(M)
\*   rank 2: pinv(M) = M (e1 I - M)^2 / e2^2  (e1 trace, e2 principal minors)
\*   rank 1: pinv(M) = M / e1^2
lstsq(A, B) ==
    IF Len(A) = 0 \/ Len(A) # Len(B) THEN LinAlgError
    ELSE LET M  == TransposeMul(A, A, 3)
             R  == TransposeMul(A, B, 2)
             e1 == Trace3(M)
             e2 == Minors3(M)
             S  == ShiftNeg3(M, e1)
         IN  IF Det3(M) # 0
             THEN [kind |-> "solution", points |-> <<>>,
                   num |-> Mul3(Adj3(M), R, 2), den |-> Det3(M)]
             ELSE IF e2 # 0
             THEN [kind |-> "solution", points |-> <<>>,
                   num |-> Mul3(M, Mul3(S, Mul3(S, R, 2), 2), 2), den |-> e2 * e2]
             ELSE [kind |-> "solution", points |-> <<>>,
                   num |-> Mul3(M, R, 2), den |-> e1 * e1]

\* mutant: the two sequences are paired with zip, which truncates the longer
approximate_transform_zip(pf, pt) ==
    LET n == IF Len(pf) <= Len(pt) THEN Len(pf) ELSE Len(pt)
        x == lstsq(MatA(SubSeq(pf, 1, n)), MatB(SubSeq(pt, 1, n)))
    IN  IF x.kind = "LinAlgError" THEN x
        ELSE [kind |-> "coefficients", points |-> <<>>,
              num |-> <<x.num[1][1], x.num[2][1], x.num[3][1],
                        x.num[1][2], x.num[2][2], x.num[3][2]>>,
              den |-> x.den]

\* mutant: the solved matrix is read row by row
approximate_transform_rows(pf, pt) ==
    LET x == lstsq(MatA(pf), MatB(pt))
    IN  IF x.kind = "LinAlgError" THEN x
        ELSE [kind |-> "coefficients", points |-> <<>>,
              num |-> <<x.num[1][1], x.num[1][2], x.num[2][1],
                        x.num[2][2], x.num[3][1], x.num[3][2]>>,
              den |-> x.den]

\* helpers.py:44-47  the coefficients (a, b, c, d, e, f) are column 0 and then
\* column 1 of the solved matrix; an error of lstsq propagates
approximate_transform(pf, pt) ==
    LET x == lstsq(MatA(pf), MatB(pt))
    IN  IF x.kind = "LinAlgError" THEN x
        ELSE [kind |-> "coefficients", points |-> <<>>,
              num |-> <<x.num[1][1], x.num[2][1], x.num[3][1],
                        x.num[1][2], x.num[2][2], x.num[3][2]>>,
              den |-> x.den]

-----------------------------------------------------------------------------
(* projector.py: Projector *)

\* the point mappings a Projector is built with (Projector.__init__,
\* projector.py:36,48): the identity, an axis swap, a translation and a
\* non-affine warp standing for a CRS-to-CRS transformation
ProjectFunctions == {"identity", "swap", "shift", "warp"}

\* projector.py:108  self._project_point(x, y)
ProjectPoint(f, p) ==
    CASE f = "identity" -> <<p[1], p[2]>>
      [] f = "swap"     -> <<p[2], p[1]>>
      [] f = "shift"    -> <<p[1] + 1, p[2] - 2>>
      [] f = "warp"     -> <<p[1] * p[1], p[1] + p[2]>>

\* projector.py:95-108  [self._project_point(x, y) for x, y in points]
project_points(f, pts) == [i \in 1..Len(pts) |-> ProjectPoint(f, pts[i])]

\* projector.py:269  Affine(*approximate_transform(...)): the six
\* coefficients wrapped as an Affine; an error of the fit propagates
Affine(coefs) ==
    IF coefs.kind = "LinAlgError" THEN coefs
    ELSE [kind |-> "Affine", points |-> <<>>, num |-> coefs.num, den |-> coefs.den]

\* mutant: the CRS mapping is applied before the pixel transform
project_affine_transform_crs_first(f, t, pf) ==
    LET pt == [i \in 1..Len(pf) |-> AffineApply(t, ProjectPoint(f, pf[i]))]
    IN  [fit_from |-> pf, fit_to |-> pt,
         ret |-> Affine(approximate_transform(pf, pt))]

\* projector.py:249-269  project_affine_transform; fit_from and fit_to are the
\* arguments it passes to approximate_transform
project_affine_transform(f, t, pf) ==
    LET pt == project_points(f, [i \in 1..Len(pf) |-> AffineApply(t, pf[i])])
    IN  [fit_from |-> pf, fit_to |-> pt,
         ret |-> Affine(approximate_transform(pf, pt))]

\* projector.py:271-295  project_affine_transform_grid
project_affine_transform_grid(f, t, xr, yr, bs) ==
    project_affine_transform(f, t, generate_points(xr, yr, bs))

-----------------------------------------------------------------------------
(* util/helpers.py: interpolate_polygon; projector.py: project_polygon,    *)
(* project_line, project_geojson_object                                    *)
(*                                                                         *)
(* Input coordinates are multiples of Unit, so that every division by the  *)
(* interpolation count is exact.                                           *)

RECURSIVE Factorial(_)
Factorial(n) == IF n <= 1 THEN 1 ELSE n * Factorial(n - 1)

Unit == Factorial(MaxInterp)

\* a list of points, or the exception raised while building it
OkPoints(pts) == [kind |-> "ok", points |-> pts]
IndexError == [kind |-> "IndexError", points |-> <<>>]

\* helpers.py:7-18  interpolate_polygon(polygon, interpolation, self_closing)
\* with interpolation >= 1: n = len(polygon) - int(self_closing); segment idx
\* runs from polygon[idx] towards polygon[(idx + 1) % n]; polygon[0] is
\* appended when self_closing (IndexError on an empty list)
interpolate_polygon(polygon, m, self_closing) ==
    LET n == Len(polygon) - (IF self_closing THEN 1 ELSE 0)
        steps == IF n > 0 THEN n * m ELSE 0
        interpolated_polygon ==
            [k \in 1..steps |->
                LET idx == (k - 1) \div m
                    i == (k - 1) % m
                    initial == polygon[idx + 1]
                    next == polygon[((idx + 1) % n) + 1]
                    x_diff == (next[1] - initial[1]) \div m
                    y_diff == (next[2] - initial[2]) \div m
                IN  <<initial[1] + i * x_diff, initial[2] + i * y_diff>>]
    IN  IF ~self_closing THEN OkPoints(interpolated_polygon)
        ELSE IF Len(polygon) = 0 THEN IndexError
        ELSE OkPoints(Append(interpolated_polygon, polygon[1]))

\* projector.py:110-127  project_polygon
project_polygon(f, polygon, m, self_closing) ==
    IF m # 0
    THEN LET ip == interpolate_polygon(polygon, m, self_closing)
         IN  IF ip.kind # "ok" THEN ip
             ELSE OkPoints(project_points(f, ip.points))
    ELSE OkPoints(project_points(f, polygon))

\* projector.py:129-140  project_line
project_line(f, ln, m) == project_polygon(f, ln, m, TRUE)

\* a list comprehension over calls that may raise: the first exception in
\* iteration order propagates, otherwise the list of the results
AllOk(rs) == \A i \in 1..Len(rs) : rs[i].kind = "ok"
FirstRaised(rs) ==
    rs[CHOOSE i \in 1..Len(rs) :
          rs[i].kind # "ok" /\ \A j \in 1..(i - 1) : rs[j].kind = "ok"]

\* projector.py:194  [... self.project_polygon(shape, interpolation, True)
\*                    for shape in coordinates]
ProjectShapes(f, shapes, m) ==
    LET rs == [i \in 1..Len(shapes) |-> project_polygon(f, shapes[i], m, TRUE)]
    IN  IF AllOk(rs) THEN OkPoints([i \in 1..Len(rs) |-> rs[i].points])
        ELSE [kind |-> FirstRaised(rs).kind, points |-> <<>>]

\* projector.py:195  the same, one level deeper (MultiPolygon)
ProjectPolygons(f, polygons, m) ==
    LET rs == [i \in 1..Len(polygons) |-> ProjectShapes(f, polygons[i], m)]
    IN  IF AllOk(rs) THEN OkPoints([i \in 1..Len(rs) |-> rs[i].points])
        ELSE [kind |-> FirstRaised(rs).kind, points |-> <<>>]

\* a GeoJSON object: its "type", one further member ("bbox", <<>> when
\* absent), "coordinates" and "geometries" (<<>> when absent)
GeoJSON(type, bbox, coordinates, geometries) ==
    [type |-> type, bbox |-> bbox, coordinates |-> coordinates,
     geometries |-> geometries]

ValidTypes == {"Point", "MultiPoint", "LineString", "MultiLineString",
               "Polygon", "MultiPolygon", "GeometryCollection"}

\* the outcome of project_geojson_object: the returned dict or the raised
\* exception, and the caller's object as the call leaves it
Returned(value, arg) == [kind |-> "ok", value |-> value, arg |-> arg]
Raised(kind, arg) == [kind |-> kind, value |-> <<>>, arg |-> arg]

\* mutant: new_geojson_object is the caller's dict itself, not a copy
RECURSIVE project_geojson_object_in_place(_, _, _)
project_geojson_object_in_place(f, obj, m) ==
    LET coords(r) ==
            IF r.kind = "ok"
            THEN Returned(GeoJSON(obj.type, obj.bbox, r.points, <<>>),
                          GeoJSON(obj.type, obj.bbox, r.points, obj.geometries))
            ELSE Raised(r.kind, obj)
    IN  CASE obj.type = "Point" ->
               coords(OkPoints(ProjectPoint(f, obj.coordinates)))
          [] obj.type \in {"MultiPoint", "LineString"} ->
               coords(project_polygon(f, obj.coordinates, m, TRUE))
          [] obj.type \in {"MultiLineString", "Polygon"} ->
               coords(ProjectShapes(f, obj.coordinates, m))
          [] obj.type = "MultiPolygon" ->
               coords(ProjectPolygons(f, obj.coordinates, m))
          [] obj.type = "GeometryCollection" ->
               LET rs == [i \in 1..Len(obj.geometries) |->
                             project_geojson_object_in_place(f, obj.geometries[i], m)]
               IN  IF AllOk(rs)
                   THEN LET gs == [i \in 1..Len(rs) |-> rs[i].value]
                        IN  Returned(GeoJSON(obj.type, obj.bbox, <<>>, gs),
                                     GeoJSON(obj.type, obj.bbox, obj.coordinates, gs))
                   ELSE Raised(FirstRaised(rs).kind, obj)
          [] OTHER -> Raised("TypeError", obj)

\* projector.py:171-198  project_geojson_object: the members other than
\* coordinates/geometries are copied into a new dict (line 190), then the
\* type decides (lines 191-197)
RECURSIVE project_geojson_object(_, _, _)
project_geojson_object(f, obj, m) ==
    LET coords(r) ==
            IF r.kind = "ok"
            THEN Returned(GeoJSON(obj.type, obj.bbox, r.points, <<>>), obj)
            ELSE Raised(r.kind, obj)
    IN  CASE obj.type = "Point" ->
               coords(OkPoints(ProjectPoint(f, obj.coordinates)))
          [] obj.type \in {"MultiPoint", "LineString"} ->
               coords(project_polygon(f, obj.coordinates, m, TRUE))
          [] obj.type \in {"MultiLineString", "Polygon"} ->
               coords(ProjectShapes(f, obj.coordinates, m))
          [] obj.type = "MultiPolygon" ->
               coords(ProjectPolygons(f, obj.coordinates, m))
          [] obj.type = "GeometryCollection" ->
               LET rs == [i \in 1..Len(obj.geometries) |->
                             project_geojson_object(f, obj.geometries[i], m)]
               IN  IF AllOk(rs)
                   THEN Returned(GeoJSON(obj.type, obj.bbox, <<>>,
                                         [i \in 1..Len(rs) |-> rs[i].value]), obj)
                   ELSE Raised(FirstRaised(rs).kind, obj)
          [] OTHER -> Raised("TypeError", obj)

-----------------------------------------------------------------------------
(* projector.py: project_tuple_transform[_grid], from_affine_transform *)

\* mutant: the unpacked coefficients d and e are used in each other's place
project_tuple_transform_swapped(f, t, pf) ==
    LET ta == t[1]  tb == t[2]  tc == t[3]
        td == t[4]  te == t[5]  tf == t[6]
        pt == project_points(f,
                [i \in 1..Len(pf) |->
                    <<ta * pf[i][1] + tb * pf[i][2] + tc,
                      te * pf[i][1] + td * pf[i][2] + tf>>])
    IN  [fit_from |-> pf, fit_to |-> pt, ret |-> approximate_transform(pf, pt)]

\* projector.py:200-221  project_tuple_transform: a, b, c, d, e, f = transform;
\* (a * x + b * y + c, d * x + e * y + f) for x, y in points_from
project_tuple_transform(f, t, pf) ==
    LET ta == t[1]  tb == t[2]  tc == t[3]
        td == t[4]  te == t[5]  tf == t[6]
        pt == project_points(f,
                [i \in 1..Len(pf) |->
                    <<ta * pf[i][1] + tb * pf[i][2] + tc,
                      td * pf[i][1] + te * pf[i][2] + tf>>])
    IN  [fit_from |-> pf, fit_to |-> pt, ret |-> approximate_transform(pf, pt)]

\* projector.py:223-247  project_tuple_transform_grid
project_tuple_transform_grid(f, t, xr, yr, bs) ==
    project_tuple_transform(f, t, generate_points(xr, yr, bs))

\* projector.py:65-78  Projector.from_affine_transform(*args): a classmethod
\* whose only declared parameter is transform. Python passes the class as
\* the first positional argument, so the parameter is bound to the class
\* and any explicit argument is one too many (TypeError). Without arguments
\* the Projector is built around a lambda that multiplies the class.
from_affine_transform(args) ==
    IF 1 + Len(args) # 1
    THEN [kind |-> "TypeError", project_function |-> <<>>]
    ELSE [kind |-> "Projector",
          project_function |-> [kind |-> "affine", transform |-> "Projector"]]

-----------------------------------------------------------------------------
(* Specification of the sampler: a pending call generate_points(x, y, b) *)

InitGen ==
    /\ op = "generate_points"
    /\ done = FALSE
    /\ x_range \in 0..MaxRange
    /\ y_range \in 0..MaxRange
    /\ b \in 1..MaxBlock
    /\ x_s = <<>>
    /\ y_s = <<>>
    /\ transform = <<>>
    /\ _project_point = "none"
    /\ points_from = <<>>
    /\ points_to = <<>>
    /\ ret = NoRet
    /\ NoProjectorCall

GeneratePoints ==
    /\ op = "generate_points"
    /\ ~done
    /\ x_s' = XSamples(x_range, b)
    /\ y_s' = YSamples(x_range, y_range, b)
    /\ ret' = RetPoints(generate_points(x_range, y_range, b))
    /\ done' = TRUE
    /\ UNCHANGED <<op, x_range, y_range, b, transform, _project_point,
                   points_from, points_to, pvars>>

NextGen == GeneratePoints

SpecGen == InitGen /\ [][NextGen]_vars

\* the call generate_points(x_range, y_range, b) has returned
GenReturned == op = "generate_points" /\ done

-----------------------------------------------------------------------------
(* Properties of the sampler *)

\* the distinct values of a sequence, in order of first appearance
Distinct(s) ==
    LET first == {i \in 1..Len(s) : \A j \in 1..(i - 1) : s[j] # s[i]}
    IN  [k \in 1..Cardinality(first) |->
            s[CHOOSE i \in first : Cardinality({j \in first : j < i}) = k - 1]]

XCoords(pts) == Distinct([i \in 1..Len(pts) |-> pts[i][1]])
YCoords(pts) == Distinct([i \in 1..Len(pts) |-> pts[i][2]])

\* strict lexicographic order on points
LexLess(p, q) == p[1] < q[1] \/ (p[1] = q[1] /\ p[2] < q[2])

\* C1: every point returned by generate_points(x_range, y_range, b) lies in
\* [0, x_range) x [0, y_range).
C1_PointsInRange ==
    GenReturned =>
        \A i \in 1..Len(ret.points) :
            /\ 0 <= ret.points[i][1] /\ ret.points[i][1] < x_range
            /\ 0 <= ret.points[i][2] /\ ret.points[i][2] < y_range

\* C2: generate_points returns exactly ceil(x_range/b) * ceil(y_range/b)
\* points, and no point at all when x_range = 0 or y_range = 0.
C2_PointCount ==
    GenReturned =>
        /\ Len(ret.points) = CeilDiv(x_range, b) * CeilDiv(y_range, b)
        /\ (x_range = 0 \/ y_range = 0) => ret.points = <<>>

C2_Witness ==
    /\ GenReturned /\ x_range = 7 /\ y_range = 5 /\ b = 3
    /\ Len(ret.points) = 6

\* C3: the x-coordinates of generate_points(10, 10, 3) are exactly
\* {1, 4, 7, 9}.
C3_XSamplesOf10By3 ==
    (GenReturned /\ x_range = 10 /\ y_range = 10 /\ b = 3) =>
        Elems(XCoords(ret.points)) = {1, 4, 7, 9}

\* C4: the y samples do not depend on x_range (as long as there is an x
\* sample), and are the x samples of a grid whose x extent is y_range.
C4_YAxisIndependent ==
    (GenReturned /\ Len(ret.points) > 0) =>
        /\ \A x2 \in 0..MaxRange :
              Len(generate_points(x2, y_range, b)) > 0 =>
                  YCoords(generate_points(x2, y_range, b)) = YCoords(ret.points)
        /\ \A y2 \in 1..MaxRange :
              XCoords(generate_points(y_range, y2, b)) = YCoords(ret.points)

C4_Witness ==
    /\ GenReturned /\ x_range = 3 /\ y_range = 4 /\ b = 3
    /\ YCoords(ret.points) = <<1, 4>>

\* C5: the returned list is the full cross product of its x samples and its
\* y samples, in strictly increasing lexicographic order (so no point occurs
\* twice).
C5_CrossProductLexOrder ==
    GenReturned =>
        LET pts == ret.points
            xset == {pts[i][1] : i \in 1..Len(pts)}
            yset == {pts[i][2] : i \in 1..Len(pts)}
        IN  /\ Elems(pts) = xset \X yset
            /\ Len(pts) = Cardinality(xset) * Cardinality(yset)
            /\ Len(pts) = Len(x_s) * Len(y_s)
            /\ \A i \in 1..Len(pts) : \A j \in 1..Len(pts) :
                  i < j => LexLess(pts[i], pts[j])

C5_Witness ==
    /\ GenReturned /\ Len(x_s) >= 2 /\ Len(y_s) >= 2
    /\ Len(ret.points) >= 4

\* C6 as stated: for all non-negative x_range, y_range and b >=
\* max(x_range, y_range) there is exactly one x sample and one y sample.
C6_SingleSampleNonNegative ==
    (GenReturned /\ b >= Max(x_range, y_range)) =>
        Len(x_s) = 1 /\ Len(y_s) = 1

\* C6 amended: for all positive x_range, y_range and b >= max(x_range,
\* y_range) there is exactly one x sample and one y sample, hence one point.
C6_SingleSamplePositive ==
    (GenReturned /\ x_range > 0 /\ y_range > 0 /\ b >= Max(x_range, y_range)) =>
        /\ Len(x_s) = 1 /\ Len(y_s) = 1
        /\ Len(XCoords(ret.points)) = 1 /\ Len(YCoords(ret.points)) = 1

C6_Witness ==
    /\ GenReturned /\ x_range = 3 /\ y_range = 2 /\ b = 3
    /\ Len(ret.points) = 1

\* C7: generate_points(2, 2, 3) returns exactly one point, and each of its
\* coordinates is 0 or 1.
C7_SingleBlock ==
    (GenReturned /\ x_range = 2 /\ y_range = 2 /\ b = 3) =>
        /\ Len(ret.points) = 1
        /\ ret.points[1][1] \in {0, 1}
        /\ ret.points[1][2] \in {0, 1}

C7_Witness ==
    /\ GenReturned /\ x_range = 2 /\ y_range = 2 /\ b = 3
    /\ ret.points = << <<1, 1>> >>

-----------------------------------------------------------------------------
(* Specification of the fitter: a pending call                             *)
(* approximate_transform(points_from, points_to)                           *)

\* affine coefficients (a, b, c, d, e, f) the inputs are drawn from
Transforms ==
    { <<1, 0, 0, 0, 1, 0>>, <<0, 1, 0, 1, 0, 0>>, <<2, 0, 1, 0, -2, 3>>,
      <<1, 2, 3, 4, 5, 6>>, <<0, 0, 0, 0, 0, 0>>, <<-1, 1, 2, 3, 0, -2>> }

\* source points: a triangle, a fourth point off its sides, and <<2, 0>> in
\* line with <<0, 0>> and <<1, 0>>
Points == {<<0, 0>>, <<1, 0>>, <<0, 1>>, <<1, 2>>, <<2, 0>>}

PointSeqs == UNION {[1..n -> Points] : n \in 0..MaxPts}

Image(t, pts) == [i \in 1..Len(pts) |-> AffineApply(t, pts[i])]

\* the destination sequences tried against a source sequence: its exact image
\* under t, the image with one destination moved, the image of a shorter
\* sequence (one point less, or none) and of a longer one
Destinations(t, pf) ==
    {Image(t, pf)}
    \cup {Image(t, SubSeq(pf, 1, n)) : n \in {0, Len(pf) - 1} \cap (0..Len(pf))}
    \cup {Image(t, Append(pf, <<1, 0>>))}
    \cup (IF Len(pf) = 0 THEN {}
          ELSE {[i \in 1..Len(pf) |->
                    IF i = Len(pf)
                    THEN <<AffineApply(t, pf[i])[1] + 1, AffineApply(t, pf[i])[2]>>
                    ELSE AffineApply(t, pf[i])]})

InitFit ==
    /\ op = "approximate_transform"
    /\ done = FALSE
    /\ x_range = 0
    /\ y_range = 0
    /\ b = 1
    /\ x_s = <<>>
    /\ y_s = <<>>
    /\ transform \in Transforms
    /\ _project_point = "none"
    /\ points_from \in PointSeqs
    /\ points_to \in Destinations(transform, points_from)
    /\ ret = NoRet
    /\ NoProjectorCall

ApproximateTransform ==
    /\ op = "approximate_transform"
    /\ ~done
    /\ ret' = approximate_transform(points_from, points_to)
    /\ done' = TRUE
    /\ UNCHANGED <<op, x_range, y_range, b, x_s, y_s, transform, _project_point,
                   points_from, points_to, pvars>>

NextFit == ApproximateTransform

SpecFit == InitFit /\ [][NextFit]_vars

\* the call approximate_transform(points_from, points_to) has returned or
\* raised
FitReturned == op = "approximate_transform" /\ done

-----------------------------------------------------------------------------
(* Properties of the fitter *)

\* some three of the points are not on one line
NonCollinear(pts) ==
    \E i, j, k \in 1..Len(pts) :
        (pts[j][1] - pts[i][1]) * (pts[k][2] - pts[i][2])
            # (pts[k][1] - pts[i][1]) * (pts[j][2] - pts[i][2])

\* the returned coefficients are exactly t
Returns(t) ==
    /\ ret.kind = "coefficients"
    /\ ret.den # 0
    /\ \A k \in 1..6 : ret.num[k] = t[k] * ret.den

\* C8: approximate_transform fails with a dimension-mismatch error whenever
\* points_from and points_to differ in length; it returns no coefficients.
C8_LengthMismatchFails ==
    (FitReturned /\ Len(points_from) # Len(points_to)) =>
        ret.kind = "LinAlgError"

C8_Witness ==
    /\ FitReturned /\ Len(points_from) = 4 /\ Len(points_to) = 5
    /\ NonCollinear(points_from)
    /\ ret.kind = "LinAlgError"

\* C9: if points_from holds at least 3 non-collinear points and points_to is
\* its image under the affine map (a, b, c, d, e, f), approximate_transform
\* returns exactly (a, b, c, d, e, f), in that order.
C9_ExactAffineRecovery ==
    FitReturned =>
        \A t \in Transforms :
            ( /\ Len(points_from) >= 3
              /\ NonCollinear(points_from)
              /\ Len(points_to) = Len(points_from)
              /\ \A i \in 1..Len(points_from) :
                    points_to[i] = AffineApply(t, points_from[i]) )
            => Returns(t)

C9_Witness ==
    /\ FitReturned /\ Len(points_from) = 4 /\ NonCollinear(points_from)
    /\ transform = <<1, 2, 3, 4, 5, 6>>
    /\ points_to = Image(transform, points_from)
    /\ Returns(transform)

-----------------------------------------------------------------------------
(* Specification of the grid projection: a pending call                    *)
(* projector.project_affine_transform_grid(transform, x_range, y_range, b) *)

InitGrid ==
    /\ op = "project_affine_transform_grid"
    /\ done = FALSE
    /\ x_range \in 0..MaxGrid
    /\ y_range \in 0..MaxGrid
    /\ b \in 1..MaxBlock
    /\ x_s = <<>>
    /\ y_s = <<>>
    /\ transform \in Transforms
    /\ _project_point \in ProjectFunctions
    /\ points_from = <<>>
    /\ points_to = <<>>
    /\ ret = NoRet
    /\ NoProjectorCall

ProjectAffineTransformGrid ==
    /\ op = "project_affine_transform_grid"
    /\ ~done
    /\ LET r == project_affine_transform_grid(_project_point, transform,
                                                x_range, y_range, b)
       IN  /\ points_from' = r.fit_from
           /\ points_to' = r.fit_to
           /\ ret' = r.ret
    /\ x_s' = XSamples(x_range, b)
    /\ y_s' = YSamples(x_range, y_range, b)
    /\ done' = TRUE
    /\ UNCHANGED <<op, x_range, y_range, b, transform, _project_point, pvars>>

NextGrid == ProjectAffineTransformGrid

SpecGrid == InitGrid /\ [][NextGrid]_vars

GridReturned == op = "project_affine_transform_grid" /\ done

-----------------------------------------------------------------------------
(* Properties of the grid projection *)

\* C10: project_affine_transform_grid fits exactly the pairs
\* (p_i, project_point(transform * p_i)) for p = generate_points(x_range,
\* y_range, b), in that order: the sources are the samples, the i-th
\* destination belongs to the i-th source, and the pixel transform is applied
\* before the point mapping.
C10_GridFitsSampledPairs ==
    GridReturned =>
        /\ points_from = generate_points(x_range, y_range, b)
        /\ Len(points_from) = Len(x_s) * Len(y_s)
        /\ Len(points_to) = Len(points_from)
        /\ \A i \in 1..Len(points_from) :
              LET x == points_from[i][1]
                  y == points_from[i][2]
                  pixel == <<transform[1] * x + transform[2] * y + transform[3],
                             transform[4] * x + transform[5] * y + transform[6]>>
              IN  points_to[i] = ProjectPoint(_project_point, pixel)
        /\ ret = Affine(approximate_transform(points_from, points_to))

C10_Witness ==
    /\ GridReturned /\ _project_point = "warp"
    /\ transform = <<1, 2, 3, 4, 5, 6>>
    /\ x_range = 3 /\ y_range = 2 /\ b = 1
    /\ Len(points_to) = 6
    /\ points_to[6] = <<49, 26>>
    /\ ret.kind = "Affine"

-----------------------------------------------------------------------------
(* Specification of a Projector: a pending method call on a projector      *)
(* built with one of the point mappings; before the call is made, the      *)
(* caller may assign to projector.project_point.                           *)

P0 == <<0, 0>>
P1 == <<Unit, 0>>
P2 == <<Unit, 2 * Unit>>

Line2 == <<P0, P1>>
Line3 == <<P0, P1, P2>>
Ring == <<P0, P1, P2, P0>>

\* geometries to project: one of each GeoJSON type, a MultiPoint without
\* positions, an empty collection, and two objects of unsupported types
Leaves ==
    << GeoJSON("Point", <<>>, P1, <<>>),
       GeoJSON("MultiPoint", <<>>, Line3, <<>>),
       GeoJSON("MultiPoint", <<>>, <<>>, <<>>),
       GeoJSON("LineString", <<0, 0, Unit, 0>>, Line2, <<>>),
       GeoJSON("MultiLineString", <<>>, <<Line2, Line3>>, <<>>),
       GeoJSON("Polygon", <<>>, <<Ring>>, <<>>),
       GeoJSON("MultiPolygon", <<>>, << <<Ring>>, <<Ring, Line3>> >>, <<>>),
       GeoJSON("GeometryCollection", <<>>, <<>>, <<>>),
       GeoJSON("Feature", <<>>, <<>>, <<>>),
       GeoJSON("Circle", <<>>, P1, <<>>) >>

Collection(bbox, geometries) ==
    GeoJSON("GeometryCollection", bbox, <<>>, geometries)

\* the leaves that come second in a collection of two: a MultiPoint without
\* positions, a LineString, a Polygon and an object of unsupported type
Seconds == {3, 4, 6, 10}

\* a leaf, or a collection of one or two leaves
BaseObject(n, i, j) ==
    CASE n = 0 -> Leaves[i]
      [] n = 1 -> Collection(<<>>, <<Leaves[i]>>)
      [] n = 2 -> Collection(<<>>, <<Leaves[i], Leaves[j]>>)

\* obj nested k collections deep, after a Point
RECURSIVE Nest(_, _)
Nest(k, obj) ==
    IF k = 0 THEN obj
    ELSE Collection(<<>>, <<Leaves[1], Nest(k - 1, obj)>>)

BBoxes == {<<>>, <<0, 0, Unit, 2 * Unit>>}

WithBBox(obj, bbox) ==
    IF bbox = <<>> THEN obj
    ELSE GeoJSON(obj.type, bbox, obj.coordinates, obj.geometries)

LinePoints == {P0, P1, P2}

Lines == UNION {[1..n -> LinePoints] : n \in 0..MaxVertices}

\* what every pending Projector call starts from
InitProjectorCall ==
    /\ done = FALSE
    /\ x_s = <<>>
    /\ y_s = <<>>
    /\ points_to = <<>>
    /\ ret = NoRet
    /\ _project_point \in ProjectFunctions
    /\ optimize \in BOOLEAN
    /\ new_project_point = "none"
    /\ assigned = "none"

InitProjectLine ==
    /\ op = "project_line"
    /\ line \in Lines
    /\ interpolation \in 0..MaxInterp
    /\ geojson_object = <<>>
    /\ x_range = 0 /\ y_range = 0 /\ b = 1
    /\ transform = <<>>
    /\ points_from = <<>>

InitProjectGeoJSON ==
    /\ op = "project_geojson_object"
    /\ \E n \in 0..2, i \in 1..Len(Leaves), j \in Seconds,
          k \in 0..MaxDepth, bbox \in BBoxes :
          geojson_object = WithBBox(Nest(k, BaseObject(n, i, j)), bbox)
    /\ interpolation \in 0..MaxInterp
    /\ line = <<>>
    /\ x_range = 0 /\ y_range = 0 /\ b = 1
    /\ transform = <<>>
    /\ points_from = <<>>

\* source points of the transform projections: none, one, a triangle, four in
\* general position, three on a line
PointLists ==
    { <<>>, << <<1, 0>> >>, << <<0, 0>>, <<1, 0>>, <<1, 2>> >>,
      << <<0, 0>>, <<1, 0>>, <<1, 2>>, <<0, 1>> >>,
      << <<0, 0>>, <<1, 0>>, <<2, 0>> >> }

InitProjectTransform ==
    /\ op \in {"project_tuple_transform", "project_affine_transform"}
    /\ transform \in Transforms
    /\ points_from \in PointLists
    /\ x_range = 0 /\ y_range = 0 /\ b = 1
    /\ geojson_object = <<>>
    /\ line = <<>>
    /\ interpolation = 0

InitProjectTransformGrid ==
    /\ op \in {"project_tuple_transform_grid", "project_affine_transform_grid"}
    /\ transform \in Transforms
    /\ points_from = <<>>
    /\ x_range \in 0..MaxGrid
    /\ y_range \in 0..MaxGrid
    /\ b \in {1, 2, MaxBlock}
    /\ geojson_object = <<>>
    /\ line = <<>>
    /\ interpolation = 0

\* Projector.from_affine_transform(transform), or without an argument
\* (transform = <<>>); there is no instance yet
InitFromAffineTransform ==
    /\ op = "from_affine_transform"
    /\ done = FALSE
    /\ transform \in Transforms \cup {<<>>}
    /\ _project_point = "none"
    /\ optimize \in BOOLEAN
    /\ x_range = 0 /\ y_range = 0 /\ b = 1
    /\ x_s = <<>> /\ y_s = <<>>
    /\ points_from = <<>> /\ points_to = <<>>
    /\ ret = NoRet
    /\ geojson_object = <<>>
    /\ line = <<>>
    /\ interpolation = 0
    /\ new_project_point = "none"
    /\ assigned = "none"

InitProjector ==
    \/ /\ InitProjectorCall
       /\ \/ InitProjectLine
          \/ InitProjectGeoJSON
          \/ InitProjectTransform
          \/ InitProjectTransformGrid
    \/ InitFromAffineTransform

\* the methods called on an instance
ProjectorOps ==
    {"project_line", "project_geojson_object", "project_tuple_transform",
     "project_affine_transform", "project_tuple_transform_grid",
     "project_affine_transform_grid"}

\* projector.py:86-93  projector.project_point = g: the assert names
\* project_function, which is not defined in the setter, so the statement
\* raises NameError unless assert statements are dropped (python -O)
SetProjectPoint ==
    /\ op \in ProjectorOps
    /\ ~done
    /\ assigned = "none"
    /\ \E g \in ProjectFunctions :
          /\ new_project_point' = g
          /\ IF optimize
             THEN /\ _project_point' = g
                  /\ assigned' = "ok"
             ELSE /\ _project_point' = _project_point
                  /\ assigned' = "NameError"
    /\ UNCHANGED <<op, done, x_range, y_range, b, x_s, y_s, transform,
                   points_from, points_to, ret, geojson_object, line,
                   interpolation, optimize>>

ProjectLine ==
    /\ op = "project_line"
    /\ ~done
    /\ ret' = project_line(_project_point, line, interpolation)
    /\ done' = TRUE
    /\ UNCHANGED <<op, x_range, y_range, b, x_s, y_s, transform, _project_point,
                   points_from, points_to, pvars>>

ProjectGeoJSONObject ==
    /\ op = "project_geojson_object"
    /\ ~done
    /\ LET r == project_geojson_object(_project_point, geojson_object,
                                        interpolation)
       IN  /\ ret' = [kind |-> r.kind, value |-> r.value]
           /\ geojson_object' = r.arg
    /\ done' = TRUE
    /\ UNCHANGED <<op, x_range, y_range, b, x_s, y_s, transform, _project_point,
                   points_from, points_to, line, interpolation, optimize,
                   new_project_point, assigned>>

ProjectTupleTransform ==
    /\ op = "project_tuple_transform"
    /\ ~done
    /\ LET r == project_tuple_transform(_project_point, transform, points_from)
       IN  /\ points_from' = r.fit_from
           /\ points_to' = r.fit_to
           /\ ret' = r.ret
    /\ done' = TRUE
    /\ UNCHANGED <<op, x_range, y_range, b, x_s, y_s, transform, _project_point,
                   pvars>>

ProjectAffineTransform ==
    /\ op = "project_affine_transform"
    /\ ~done
    /\ LET r == project_affine_transform(_project_point, transform, points_from)
       IN  /\ points_from' = r.fit_from
           /\ points_to' = r.fit_to
           /\ ret' = r.ret
    /\ done' = TRUE
    /\ UNCHANGED <<op, x_range, y_range, b, x_s, y_s, transform, _project_point,
                   pvars>>

ProjectTupleTransformGrid ==
    /\ op = "project_tuple_transform_grid"
    /\ ~done
    /\ LET r == project_tuple_transform_grid(_project_point, transform,
                                              x_range, y_range, b)
       IN  /\ points_from' = r.fit_from
           /\ points_to' = r.fit_to
           /\ ret' = r.ret
    /\ x_s' = XSamples(x_range, b)
    /\ y_s' = YSamples(x_range, y_range, b)
    /\ done' = TRUE
    /\ UNCHANGED <<op, x_range, y_range, b, transform, _project_point, pvars>>

FromAffineTransform ==
    /\ op = "from_affine_transform"
    /\ ~done
    /\ ret' = from_affine_transform(IF transform = <<>> THEN <<>>
                                    ELSE <<transform>>)
    /\ done' = TRUE
    /\ UNCHANGED <<op, x_range, y_range, b, x_s, y_s, transform, _project_point,
                   points_from, points_to, pvars>>

NextProjector ==
    \/ SetProjectPoint
    \/ ProjectLine
    \/ ProjectGeoJSONObject
    \/ ProjectTupleTransform
    \/ ProjectAffineTransform
    \/ ProjectTupleTransformGrid
    \/ ProjectAffineTransformGrid
    \/ FromAffineTransform

SpecProjector == InitProjector /\ [][NextProjector]_vars

-----------------------------------------------------------------------------
(* Properties of the Projector *)

\* obj, or an object nested in its geometries at any depth, has a type that
\* project_geojson_object does not support
RECURSIVE HasUnsupportedType(_)
HasUnsupportedType(obj) ==
    \/ obj.type \notin ValidTypes
    \/ /\ obj.type = "GeometryCollection"
       /\ \E i \in 1..Len(obj.geometries) : HasUnsupportedType(obj.geometries[i])

\* C11: project_geojson_object raises TypeError whenever the object, or an
\* object nested at any depth in the geometries of a GeometryCollection, has
\* a type outside the seven supported ones; nothing is returned.
C11_UnsupportedTypeRaisesTypeError ==
    (op = "project_geojson_object" /\ done /\ HasUnsupportedType(geojson_object))
        => ret.kind = "TypeError"

\* a occurs in b as a subsequence, from position k of b on
RECURSIVE SubsequenceFrom(_, _, _)
SubsequenceFrom(a, bb, k) ==
    IF Len(a) = 0 THEN TRUE
    ELSE IF k > Len(bb) THEN FALSE
    ELSE IF bb[k] = a[1] THEN SubsequenceFrom(Tail(a), bb, k + 1)
    ELSE SubsequenceFrom(a, bb, k + 1)

\* C13: for an open line of k >= 2 vertices and interpolation m >= 1,
\* project_line returns a list that starts with the projection of line[0],
\* ends with the projection of line[k-1] and holds the projections of all
\* vertices in input order.
C13_ProjectLineKeepsVertices ==
    ( /\ op = "project_line" /\ done
      /\ Len(line) >= 2 /\ line[1] # line[Len(line)]
      /\ interpolation >= 1 )
    => /\ ret.kind = "ok"
       /\ ret.points[1] = ProjectPoint(_project_point, line[1])
       /\ ret.points[Len(ret.points)]
             = ProjectPoint(_project_point, line[Len(line)])
       /\ SubsequenceFrom(project_points(_project_point, line), ret.points, 1)

\* C12: Projector.from_affine_transform(transform), called with one Affine,
\* returns a Projector whose project function is that transform.
C12_FromAffineReturnsProjector ==
    (op = "from_affine_transform" /\ done /\ transform # <<>>)
        => /\ ret.kind = "Projector"
           /\ ret.project_function = [kind |-> "affine", transform |-> transform]

\* C14: an assignment of g to projector.project_point succeeds, and from
\* then on the projector maps points with g.
C14_AssignmentTakesEffect ==
    (new_project_point # "none") =>
        /\ assigned = "ok"
        /\ _project_point = new_project_point
        /\ (op = "project_line" /\ done /\ interpolation = 0) =>
              ret.points = project_points(new_project_point, line)

\* C15: project_tuple_transform and project_affine_transform, called with
\* the same coefficients and points on the same projector, pass the same
\* (source, destination) pairs to approximate_transform and return the same
\* six coefficients, the latter wrapped as an Affine; so do the _grid
\* variants.
C15_TupleAndAffineAgree ==
    /\ (op = "project_tuple_transform" /\ done) =>
          LET r == project_affine_transform(_project_point, transform, points_from)
          IN  r.fit_from = points_from /\ r.fit_to = points_to
              /\ r.ret = Affine(ret)
    /\ (op = "project_affine_transform" /\ done) =>
          LET r == project_tuple_transform(_project_point, transform, points_from)
          IN  r.fit_from = points_from /\ r.fit_to = points_to
              /\ Affine(r.ret) = ret
    /\ (op = "project_tuple_transform_grid" /\ done) =>
          LET r == project_affine_transform_grid(_project_point, transform,
                                                 x_range, y_range, b)
          IN  r.fit_from = points_from /\ r.fit_to = points_to
              /\ r.ret = Affine(ret)
    /\ (op = "project_affine_transform_grid" /\ done) =>
          LET r == project_tuple_transform_grid(_project_point, transform,
                                                x_range, y_range, b)
          IN  r.fit_from = points_from /\ r.fit_to = points_to
              /\ Affine(r.ret) = ret

C15_Witness ==
    /\ op = "project_tuple_transform" /\ done
    /\ transform = <<1, 2, 3, 4, 5, 6>>
    /\ _project_point = "warp"
    /\ Len(points_from) = 4
    /\ points_to[2] = <<16, 14>>
    /\ ret.kind = "coefficients"

\* C16: a call of project_geojson_object that returns leaves the caller's
\* object as it was, and the returned object has the same type and the same
\* further member; for a GeometryCollection it has one geometry per input
\* geometry, in the same order, each the projection of that geometry.
C16_InputKeptOutputMirrors ==
    [][ (op = "project_geojson_object" /\ ~done /\ done' /\ ret'.kind = "ok") =>
          /\ geojson_object' = geojson_object
          /\ ret'.value.type = geojson_object.type
          /\ ret'.value.bbox = geojson_object.bbox
          /\ (geojson_object.type = "GeometryCollection") =>
                /\ Len(ret'.value.geometries) = Len(geojson_object.geometries)
                /\ \A i \in 1..Len(geojson_object.geometries) :
                      LET g == project_geojson_object(_project_point,
                                   geojson_object.geometries[i], interpolation)
                      IN  g.kind = "ok" /\ ret'.value.geometries[i] = g.value
      ]_vars

C16_Witness ==
    /\ op = "project_geojson_object" /\ done /\ ret.kind = "ok"
    /\ geojson_object.type = "GeometryCollection"
    /\ geojson_object.bbox # <<>>
    /\ Len(geojson_object.geometries) = 2
    /\ geojson_object.geometries[2].type = "LineString"
    /\ interpolation = 2
    /\ _project_point = "shift"
    /\ ret.value.geometries[2].coordinates # geojson_object.geometries[2].coordinates

====
